---- MODULE Spec2Model ----
(***************************************************************************)
(* The video generation job lifecycle of the AEON web application:         *)
(*   - the VideoHub client component (handleGenerate, the polling effect,  *)
(*     saveToLibrary) of apps/web/components/modules/video-hub.tsx,        *)
(*   - the route handler POST /api/video/generate,                         *)
(*   - the route handler GET /api/video/status (normalizing variant, and   *)
(*     the pass-through variant of the same file),                         *)
(*   - the comments table of apps/web/lib/db.ts and its initialization     *)
(*     routes.                                                             *)
(*                                                                         *)
(* Text is modelled as a tuple of tokens (<<" ", "a">> is " a"), so that   *)
(* trim() and endsWith() are computed and not assumed.  JSON values whose  *)
(* type the code inspects are tagged records [t, v].  Text fields of which *)
(* the code only tests the truthiness (status, error) are plain strings,   *)
(* "" standing for null / undefined / the empty string.                    *)
(***************************************************************************)
EXTENDS Integers, Sequences, FiniteSets, TLC

\* ------------------------------------------------------------------ bounds
\* creation requests (clicks on Generate and requests of other HTTP clients) in
\* one behaviour of Spec
MaxSubmits == 1
\* clicks on Generate in one behaviour of SpecJobs
MaxJobs == 2
\* status queries the interval of one job issues in one behaviour
MaxQueries == 2
\* longest list the provider's payload has as its output
MaxList == 3
\* rows the comments table holds at most, and the latest CURRENT_TIMESTAMP
MaxComments == 2
MaxNow == 2

\* --------------------------------------------------------- program constants
LibraryCap == 100
DefaultDuration == 6
DefaultResolution == "768p"

\* ------------------------------------------------------------- JSON values
JNull == [t |-> "null", v |-> <<>>]
JUndef == [t |-> "undefined", v |-> <<>>]
JStr(s) == [t |-> "string", v |-> s]
JNum(n) == [t |-> "number", v |-> n]
JList(l) == [t |-> "list", v |-> l]
JObj(video, url) == [t |-> "object", v |-> [video |-> video, url |-> url]]
JBool(b) == [t |-> "boolean", v |-> b]

\* JavaScript truthiness of a JSON value
Truthy(x) ==
    CASE x.t \in {"null", "undefined"} -> FALSE
      [] x.t = "string" -> x.v # <<>>
      [] x.t = "number" -> x.v # 0
      [] x.t = "boolean" -> x.v
      [] OTHER -> TRUE

\* x ?? y
Nullish(x, y) == IF x.t \in {"null", "undefined"} THEN y ELSE x

\* a || b on text fields ("" is the falsy text)
OrElse(a, b) == IF a # "" THEN a ELSE b

\* ---------------------------------------------------------------- text
Space == " "

RECURSIVE TrimStart(_)
TrimStart(s) ==
    IF s # <<>> /\ Head(s) = Space THEN TrimStart(Tail(s)) ELSE s

RECURSIVE TrimEnd(_)
TrimEnd(s) ==
    IF s # <<>> /\ s[Len(s)] = Space THEN TrimEnd(SubSeq(s, 1, Len(s) - 1)) ELSE s

\* String.prototype.trim
Trim(s) == TrimEnd(TrimStart(s))

\* u.endsWith(".mp4")
EndsWithMp4(s) == s # <<>> /\ s[Len(s)] = ".mp4"

\* Array.prototype.slice(0, n)
Slice(s, n) == SubSeq(s, 1, IF Len(s) < n THEN Len(s) ELSE n)

\* ----------------------------------------------------------- input domains
\* what the user can type into the prompt field
PromptInputs == {<<>>, <<" ">>, <<" ", "a">>}
\* the slider's values (min 2, max 10); two of them are enough to tell an
\* edited value from the submitted one
Durations == {6, 10}
\* values of the resolution select (two of its four options)
Resolutions == {"1280x768", "1920x1080"}

\* request bodies another HTTP client posts to the generate route
DirectBodies ==
    { [prompt |-> p, duration |-> JUndef, resolution |-> JUndef] :
        p \in {JUndef, JStr(<<>>), JStr(<<" ">>), JNum(7)} }

\* statuses the provider reports
NonTerminal == {"queued", "running"}
Terminal == {"succeeded", "failed", "canceled"}
ProviderStatuses == NonTerminal \cup Terminal

Mp4Url == <<"https://x/b", ".mp4">>
PngUrl == <<"https://x/a", ".png">>

\* raw provider outputs of a status response
RawOutputs ==
    { JNull,
      JStr(Mp4Url),
      JList(<<JStr(PngUrl), JStr(Mp4Url)>>),
      JList(<<>>),
      JObj(JUndef, JStr(Mp4Url)) }

\* provider ids of the jobs (opaque ids, modelled as 1, 2, ...)
Jobs == 1 .. MaxJobs
NoJob == 0

\* ------------------------------------------------- browser storage (LIB_KEY)
\* the value under LIB_KEY: kind "absent" (getItem returns null), or a text of
\* kind "empty" (""), "corrupt" (JSON.parse throws) or "json" (parses to v)
StoredAbsent == [k |-> "absent", v |-> JNull]
StoredText(k, v) == [k |-> k, v |-> v]

\* JSON.stringify(next): the text that parses back to the array of the items
JSONStringify(its) == StoredText("json", JList(its))

\* localStorage.getItem(LIB_KEY) || "[]"
StoredOrEmptyArray(st) ==
    IF st.k \in {"absent", "empty"} THEN JSONStringify(<<>>) ELSE st

\* the library useMemo: try { return JSON.parse(...) } catch { return [] }
Load(st) ==
    LET text == StoredOrEmptyArray(st) IN
    IF text.k = "corrupt" THEN JList(<<>>) ELSE text.v

\* an item stored by an earlier session, the k-th newest
OldItem(k) ==
    [id |-> 0 - k, prompt |-> <<"a">>, createdAt |-> 0 - k, url |-> JStr(Mp4Url),
     duration |-> DefaultDuration, resolution |-> DefaultResolution]
OldItems(n) == [k \in 1 .. n |-> OldItem(k)]

\* what the browser may hold under LIB_KEY when the component is created
StoredValues ==
    { StoredAbsent,
      StoredText("empty", JNull),
      StoredText("corrupt", JNull),
      StoredText("json", JNull),
      StoredText("json", JNum(5)),
      StoredText("json", JObj(JUndef, JUndef)),
      JSONStringify(OldItems(1)),
      JSONStringify(OldItems(LibraryCap - 1)),
      JSONStringify(OldItems(LibraryCap)) }

VARIABLES
    \* VideoHub component state
    prompt, duration, resolution,
    predictionId, videoUrl, status, loading, error, items,
    alive,          \* the component is mounted
    \* the polling effect of each job: its `mounted` flag, its interval timer
    \* and the values its callback closed over
    mounted, interval, closure,
    \* browser storage under LIB_KEY
    localStorage,
    \* network
    subs,           \* creation requests, in the order they were made: origin,
                    \* body, stage "sent" -> "replied" -> "done", the route's
                    \* response, and as history whether the route ran, the
                    \* creation calls it made and the job the provider created
    inflight,       \* per job, the status queries awaiting their response
    \* server environment
    token,          \* REPLICATE_API_TOKEN is configured
    \* provider
    nextId,         \* next id the provider issues
    clock,          \* Date.now()
    \* history
    queries,        \* status queries issued per job
    saves,          \* completed saveToLibrary calls per job
    torn,           \* jobs whose effect cleanup has run
    hist,           \* per job, the shape of the status responses so far
    \* the value useState(library) holds is an array
    itemsIsArray,
    \* one request to GET /api/video/status
    rawOutput,      \* data.output of the provider's payload
    statusDone,     \* the handlers have answered
    outputUrl,      \* `output` of the normalizing handler's body
    passOutput,     \* `output` of the pass-through handler's body
    \* the comments database
    dbExists,       \* the table comments exists
    dbRows,         \* its rows, in insertion order
    dbSeq,          \* next value of the SERIAL sequence of id
    dbNow,          \* CURRENT_TIMESTAMP
    initPc,         \* position of the running initializeDatabase of lib/db.ts
    lastOps,        \* the last two completed operations, oldest first
    prevDb,         \* the table and its rows before the last completed operation
    raised,         \* the last completed operation raised
    inserted,       \* the rows the successful inserts returned
    anyFailed,      \* some statement has failed so far
    listed,         \* what the last getComments returned
    \* one call of a proxy route to the primary backend
    proxyToken,     \* what getToken({ template: "backend" }) resolves to
    proxyFetch,     \* the request backendFetch handed to fetch
    backendRes,     \* what fetch resolved to
    proxyRes,       \* what the caller of the route receives
    \* one run of the security audit script
    tree,           \* the files of the working directory and their lines
    ISSUES_FOUND,   \* the script's counter
    warnings,       \* report_warning calls of the run
    exitCode,       \* the exit status of the run
    auditDone,      \* the script has exited
    \* one request through the middleware
    clerkEnv,       \* which of the two Clerk keys the environment holds
    mwReq,          \* the request: path, method, and the middleware variant
    mwLog           \* what happened to it

component == <<prompt, duration, resolution, predictionId, videoUrl, status,
               loading, error, items, alive>>
effects == <<mounted, interval, closure>>
network == <<subs, inflight>>
history == <<queries, saves, torn, hist>>
route == <<rawOutput, statusDone, outputUrl, passOutput>>
db == <<dbExists, dbRows, dbSeq, dbNow, initPc, lastOps, prevDb, raised, inserted,
        anyFailed, listed>>
proxy == <<proxyToken, proxyFetch, backendRes, proxyRes>>
audit == <<tree, ISSUES_FOUND, warnings, exitCode, auditDone>>
gate == <<clerkEnv, mwReq, mwLog>>
\* the backend proxy, the audit script and the middleware
ext == <<proxy, audit, gate>>
\* what the video component's handlers never touch
aux == <<itemsIsArray, route, db, ext>>
vars == <<component, effects, localStorage, network, token, nextId, clock, history,
          aux>>


\* ------------------------------------------------------------------- Init
NoClosure == [prompt |-> <<>>, duration |-> DefaultDuration,
              resolution |-> DefaultResolution, items |-> <<>>]

\* the state of a new VideoHub whose browser holds `stored` under LIB_KEY
ComponentInit(stored) ==
    /\ prompt = <<>>
    /\ duration = DefaultDuration
    /\ resolution = DefaultResolution
    /\ predictionId = NoJob
    /\ videoUrl = JNull
    /\ status = ""
    /\ loading = FALSE
    /\ error = ""
    /\ localStorage = stored
    /\ itemsIsArray = (Load(stored).t = "list")
    /\ items = IF Load(stored).t = "list" THEN Load(stored).v ELSE <<>>
    /\ alive = TRUE
    /\ mounted = [j \in Jobs |-> FALSE]
    /\ interval = [j \in Jobs |-> FALSE]
    /\ closure = [j \in Jobs |-> NoClosure]
    /\ subs = <<>>
    /\ inflight = [j \in Jobs |-> 0]
    /\ token \in BOOLEAN
    /\ nextId = 1
    /\ clock = 1
    /\ queries = [j \in Jobs |-> 0]
    /\ saves = [j \in Jobs |-> 0]
    /\ torn = {}
    /\ hist = [j \in Jobs |-> "pre"]

\* no request to the status route is being looked at
RouteIdle ==
    /\ rawOutput = JNull
    /\ statusDone = FALSE
    /\ outputUrl = JNull
    /\ passOutput = JNull

\* the table and its rows
DbState == [exists |-> dbExists, rows |-> dbRows, seq |-> dbSeq]

\* a database without the table, and nothing done yet
DbIdle ==
    /\ dbExists = FALSE
    /\ dbRows = <<>>
    /\ dbSeq = 1
    /\ dbNow = 1
    /\ initPc = "idle"
    /\ lastOps = <<>>
    /\ prevDb = [exists |-> FALSE, rows |-> <<>>, seq |-> 1]
    /\ raised = FALSE
    /\ inserted = {}
    /\ anyFailed = FALSE
    /\ listed = <<>>

\* no proxy route was called
ProxyIdle ==
    /\ proxyToken = JNull
    /\ proxyFetch = JUndef
    /\ backendRes = JUndef
    /\ proxyRes = JUndef

\* a file that is not there
Missing == [exists |-> FALSE, lines |-> {}]

\* the paths the audit script names, and one file of each kind it searches for
Files == {"apps/web/lib/api-config.ts", "services/api/app/main.py",
          "deployment/nginx.conf", "deployment/droplet-setup.sh",
          ".env.example", "README.md", "docker-compose.yml"}

\* the audit script was not run
AuditIdle ==
    /\ tree = [f \in Files |-> Missing]
    /\ ISSUES_FOUND = 0
    /\ warnings = 0
    /\ exitCode = 0
    /\ auditDone = FALSE

NoRequest == [path |-> <<>>, method |-> "", variant |-> ""]
NoLog == [ran |-> FALSE, clerk |-> FALSE, protect |-> FALSE, next |-> FALSE]

\* no request reached the middleware
GateIdle ==
    /\ clerkEnv = [CLERK_PUBLISHABLE_KEY |-> FALSE, CLERK_SECRET_KEY |-> FALSE]
    /\ mwReq = NoRequest
    /\ mwLog = NoLog

ExtIdle == ProxyIdle /\ AuditIdle /\ GateIdle

Init == ComponentInit(StoredAbsent) /\ RouteIdle /\ DbIdle /\ ExtIdle

\* ------------------------------------------------------------ input fields
\* onChange of the prompt input
SetPrompt(p) ==
    /\ alive
    /\ p # prompt
    /\ prompt' = p
    /\ UNCHANGED <<duration, resolution, predictionId, videoUrl, status,
                   loading, error, items, alive>>
    /\ UNCHANGED <<effects, localStorage, network, token, aux, nextId, clock, history>>

\* onValueChange of the duration slider
SetDuration(d) ==
    /\ alive
    /\ d # duration
    /\ duration' = d
    /\ UNCHANGED <<prompt, resolution, predictionId, videoUrl, status,
                   loading, error, items, alive>>
    /\ UNCHANGED <<effects, localStorage, network, token, aux, nextId, clock, history>>

\* onValueChange of the resolution select
SetResolution(r) ==
    /\ alive
    /\ r # resolution
    /\ resolution' = r
    /\ UNCHANGED <<prompt, duration, predictionId, videoUrl, status,
                   loading, error, items, alive>>
    /\ UNCHANGED <<effects, localStorage, network, token, aux, nextId, clock, history>>



\* --------------------------------------------------------------- submission
\* no response (none yet, or already consumed)
NoResp == [ok |-> FALSE, id |-> NoJob, error |-> "", perr |-> ""]

\* the Generate button is enabled (the `disabled` attribute of the first
\* button; the parent's isGenerating prop is false)
GenerateEnabled(p) == Trim(p) # <<>>

\* body of the browser's POST /api/video/generate
RequestBody(p, d, r) ==
    [prompt |-> JStr(Trim(p)), duration |-> JNum(d), resolution |-> JStr(r)]

\* handleGenerate, up to its await of fetch (max bounds the requests made)
handleGenerate(max) ==
    /\ alive
    /\ GenerateEnabled(prompt)
    /\ Len(subs) < max
    /\ error' = ""
    /\ videoUrl' = JNull
    /\ status' = "starting"
    /\ loading' = TRUE
    /\ subs' = Append(subs,
                 [origin |-> "ui", stage |-> "sent", routed |-> FALSE,
                  body |-> RequestBody(prompt, duration, resolution),
                  resp |-> NoResp, calls |-> <<>>, job |-> NoJob])
    /\ UNCHANGED <<prompt, duration, resolution, predictionId, items, alive>>
    /\ UNCHANGED <<effects, localStorage, inflight, token, aux, nextId, clock, history>>

\* ------------------------------------------------- POST /api/video/generate
\* const { prompt, duration = 6, resolution = "768p" } = await request.json()
DefaultOf(x, d) == IF x.t = "undefined" THEN d ELSE x

\* the early returns of POST: "" when the request goes on to the provider
PostRejection(body, tok) ==
    IF ~Truthy(body.prompt) \/ body.prompt.t # "string" THEN "Missing prompt"
    ELSE IF ~tok THEN "REPLICATE_API_TOKEN not configured"
    ELSE ""

\* a creation call that does not ask for the provider's prompt enhancement
ProviderInput_NoOptimizer(body) ==
    [prompt |-> body.prompt,
     duration |-> DefaultOf(body.duration, JNum(DefaultDuration)),
     resolution |-> DefaultOf(body.resolution, JStr(DefaultResolution)),
     prompt_optimizer |-> FALSE]

\* the `input` of the creation call
ProviderInput(body) ==
    [prompt |-> body.prompt,
     duration |-> DefaultOf(body.duration, JNum(DefaultDuration)),
     resolution |-> DefaultOf(body.resolution, JStr(DefaultResolution)),
     prompt_optimizer |-> TRUE]

\* the creation calls POST makes for a request
PostCalls(body, tok) ==
    IF PostRejection(body, tok) # "" THEN <<>> ELSE <<ProviderInput(body)>>

\* the response of POST.  The provider call, when one is made, ends as
\*   kind "accepted": 2xx with the new id
\*   kind "rejected": non-2xx whose payload has the error text perr ("" = none)
\*   kind "thrown":   fetch or resp.json() threw
PostResponse(body, tok, kind, perr, id) ==
    LET rej == PostRejection(body, tok) IN
    IF rej # "" THEN [ok |-> FALSE, id |-> NoJob, error |-> rej, perr |-> ""]
    ELSE CASE kind = "accepted" ->
                 [ok |-> TRUE, id |-> id, error |-> "", perr |-> ""]
           [] kind = "rejected" ->
                 [ok |-> FALSE, id |-> NoJob, perr |-> perr,
                  error |-> OrElse(perr, "Replicate error")]
           [] OTHER ->
                 [ok |-> FALSE, id |-> NoJob, perr |-> "",
                  error |-> OrElse("fetch failed", "Unknown error")]

Accepted(body, tok, kind) == PostRejection(body, tok) = "" /\ kind = "accepted"

\* the route handles the request of the component's submission s
POST(s, kind, perr) ==
    /\ subs[s].stage = "sent"
    /\ subs' = [subs EXCEPT ![s] =
          [@ EXCEPT !.stage = "replied", !.routed = TRUE,
                    !.resp = PostResponse(subs[s].body, token, kind, perr, nextId),
                    !.calls = @ \o PostCalls(subs[s].body, token),
                    !.job = IF Accepted(subs[s].body, token, kind)
                            THEN nextId ELSE NoJob]]
    /\ nextId' = IF Accepted(subs[s].body, token, kind) THEN nextId + 1 ELSE nextId
    /\ UNCHANGED <<component, effects, localStorage, inflight, token, aux, clock, history>>

\* the route handles a request of another HTTP client
DirectPost(body, kind, perr) ==
    /\ Len(subs) < MaxSubmits
    /\ subs' = Append(subs,
                 [origin |-> "direct", stage |-> "done", routed |-> TRUE,
                  body |-> body,
                  resp |-> NoResp, calls |-> PostCalls(body, token),
                  job |-> IF Accepted(body, token, kind) THEN nextId ELSE NoJob])
    /\ nextId' = IF Accepted(body, token, kind) THEN nextId + 1 ELSE nextId
    /\ UNCHANGED <<component, effects, localStorage, inflight, token, aux, clock, history>>

\* ------------------------------------------------------- the polling effect
\* clearInterval(interval)
clearInterval(iv, j) == [iv EXCEPT ![j] = FALSE]

\* the effect's cleanup: () => { mounted = false; clearInterval(interval) }
CleanupMounted(m, j) == [m EXCEPT ![j] = FALSE]
\* a cleanup that resets the flag only and leaves the timer armed
CleanupInterval_NoClear(iv, j) == iv
CleanupInterval(iv, j) == clearInterval(iv, j)

\* what the effect's callback and saveToLibrary close over: the values of the
\* render in which predictionId changed
Capture(p, d, r, its) ==
    [prompt |-> p, duration |-> d, resolution |-> r, items |-> its]

\* setPredictionId(id) and the effect run it causes (deps [predictionId]):
\* the previous effect is cleaned up, the new one starts its interval
RunEffect(id) ==
    IF id = predictionId
    THEN UNCHANGED <<predictionId, effects, torn>>
    ELSE LET old == predictionId
             m == IF old # NoJob THEN CleanupMounted(mounted, old) ELSE mounted
             iv == IF old # NoJob THEN CleanupInterval(interval, old) ELSE interval
         IN /\ predictionId' = id
            /\ mounted' = [m EXCEPT ![id] = TRUE]
            /\ interval' = [iv EXCEPT ![id] = TRUE]
            /\ closure' = [closure EXCEPT ![id] =
                              Capture(prompt, duration, resolution, items)]
            /\ torn' = IF old # NoJob THEN torn \cup {old} ELSE torn

\* handleGenerate after `if (!resp.ok)`: the setters of the failure branch
SubmitFailedError(err) == OrElse(err, "Failed to start prediction")
\* a failure branch that forgets setLoading(false)
SubmitFailedLoading_Kept(l) == l
SubmitFailedLoading(l) == FALSE

\* handleGenerate from `const data = await resp.json()` on, for the response
\* of the generate route to submission s
GenerateResponse(s) ==
    /\ subs[s].stage = "replied"
    /\ subs' = [subs EXCEPT ![s] = [@ EXCEPT !.stage = "done", !.resp = NoResp]]
    /\ IF alive
       THEN IF ~subs[s].resp.ok
            THEN /\ status' = "failed"
                 /\ error' = SubmitFailedError(subs[s].resp.error)
                 /\ loading' = SubmitFailedLoading(loading)
                 /\ UNCHANGED <<predictionId, effects, torn>>
            ELSE /\ RunEffect(subs[s].resp.id)
                 /\ UNCHANGED <<status, error, loading>>
       ELSE UNCHANGED <<status, error, loading, predictionId, effects, torn>>
    /\ UNCHANGED <<prompt, duration, resolution, videoUrl, items, alive>>
    /\ UNCHANGED <<localStorage, inflight, token, aux, nextId, clock,
                   queries, saves, hist>>

\* the catch of handleGenerate: fetch or resp.json() threw (the request did
\* not reach the route, or its response did not reach the browser)
GenerateThrows(s) ==
    /\ subs[s].stage \in {"sent", "replied"}
    /\ subs' = [subs EXCEPT ![s] = [@ EXCEPT !.stage = "done", !.resp = NoResp]]
    /\ IF alive
       THEN /\ status' = "failed"
            /\ error' = "Network error occurred"
            /\ loading' = FALSE
       ELSE UNCHANGED <<status, error, loading>>
    /\ UNCHANGED <<prompt, duration, resolution, predictionId, videoUrl, items, alive>>
    /\ UNCHANGED <<effects, localStorage, inflight, token, aux, nextId, clock, history>>

\* one firing of the interval: the callback runs up to its await of fetch
Tick(j) ==
    /\ interval[j]
    /\ queries[j] < MaxQueries
    /\ inflight' = [inflight EXCEPT ![j] = @ + 1]
    /\ queries' = [queries EXCEPT ![j] = @ + 1]
    /\ UNCHANGED <<component, effects, localStorage, subs, token, aux, nextId, clock,
                   saves, torn, hist>>

\* --------------------------------------------------- GET /api/video/status
IsStr(x) == x.t = "string"

\* the predicates given to find: a string, and with mp4 one ending in ".mp4"
Matches(u, mp4) == IsStr(u) /\ (mp4 => EndsWithMp4(u.v))

\* a find that returns the last entry that matches
Find_Last(l, mp4) ==
    IF \E i \in 1 .. Len(l) : Matches(l[i], mp4)
    THEN l[CHOOSE i \in 1 .. Len(l) :
               Matches(l[i], mp4) /\ \A k \in i + 1 .. Len(l) : ~Matches(l[k], mp4)]
    ELSE JUndef

\* Array.prototype.find: the first entry that matches, undefined when none
Find(l, mp4) ==
    IF \E i \in 1 .. Len(l) : Matches(l[i], mp4)
    THEN l[CHOOSE i \in 1 .. Len(l) :
               Matches(l[i], mp4) /\ \A k \in 1 .. i - 1 : ~Matches(l[k], mp4)]
    ELSE JUndef

\* a normalization that prefers the url key to the video key
NormalizeOutput_UrlFirst(raw) ==
    IF raw.t = "string" THEN raw
    ELSE IF raw.t = "list"
    THEN Nullish(Find(raw.v, TRUE), Nullish(Find(raw.v, FALSE), JNull))
    ELSE IF raw.t = "object"
    THEN IF Truthy(raw.v.url) THEN raw.v.url
         ELSE IF Truthy(raw.v.video) THEN raw.v.video
         ELSE JNull
    ELSE JNull

\* the output normalization of the status route
NormalizeOutput(raw) ==
    IF raw.t = "string" THEN raw
    ELSE IF raw.t = "list"
    THEN Nullish(Find(raw.v, TRUE), Nullish(Find(raw.v, FALSE), JNull))
    ELSE IF raw.t = "object"
    THEN IF Truthy(raw.v.video) THEN raw.v.video
         ELSE IF Truthy(raw.v.url) THEN raw.v.url
         ELSE JNull
    ELSE JNull

\* the `output` of the pass-through variant's body: data.output || null
PassThroughOutput(raw) == IF Truthy(raw) THEN raw ELSE JNull

\* entries of a list the provider returns as its output
Mp4UrlC == <<"https://x/c", ".mp4">>
WebmUrl == <<"https://x/d", ".webm">>
ListEntries == {JStr(PngUrl), JStr(Mp4Url), JStr(Mp4UrlC), JStr(WebmUrl), JNum(1)}

RECURSIVE ListsUpTo(_)
ListsUpTo(n) ==
    IF n = 0 THEN {<<>>}
    ELSE LET shorter == ListsUpTo(n - 1) IN
         shorter \cup {Append(l, e) : l \in {x \in shorter : Len(x) = n - 1},
                                      e \in ListEntries}

\* values of the video and url keys of a keyed output
KeyValues ==
    {JUndef, JNull, JStr(<<>>), JStr(Mp4Url), JStr(Mp4UrlC), JNum(0), JNum(7)}

\* data.output of the provider's payload
ProviderOutputs ==
    {JUndef, JNull, JStr(<<>>), JStr(Mp4Url), JNum(0), JNum(7),
     JBool(FALSE), JBool(TRUE)}
      \cup {JList(l) : l \in ListsUpTo(MaxList)}
      \cup {JObj(v, u) : v \in KeyValues, u \in KeyValues}

\* both variants of GET answer one request whose provider payload has
\* rawOutput; without the token or on a non-OK provider response (ok false)
\* their bodies have no output field
StatusGET(ok) ==
    /\ ~statusDone
    /\ statusDone' = TRUE
    /\ outputUrl' = IF token /\ ok THEN NormalizeOutput(rawOutput) ELSE JUndef
    /\ passOutput' = IF token /\ ok THEN PassThroughOutput(rawOutput) ELSE JUndef
    /\ UNCHANGED <<component, effects, localStorage, network, token, nextId,
                   clock, history, itemsIsArray, rawOutput, db, ext>>

\* ------------------------------------------------------ the comments table
\* everything but the database
core == <<component, effects, localStorage, network, token, nextId, clock,
          history, itemsIsArray>>
hub == <<core, ext>>

\* what a visitor puts into the comment field
CommentInputs == {<<>>, <<" ">>, <<" ", "a">>}

\* an initialization whose DROP was left out
DropTableIfExists_Kept(d) == d

\* DROP TABLE IF EXISTS comments (the SERIAL sequence goes with the table)
DropTableIfExists(d) == [exists |-> FALSE, rows |-> <<>>, seq |-> 1]

\* CREATE TABLE comments (...), on a database without the table
CreateTable(d) == [exists |-> TRUE, rows |-> <<>>, seq |-> 1]

\* CREATE TABLE IF NOT EXISTS comments (...)
CreateTableIfNotExists(d) == IF d.exists THEN d ELSE CreateTable(d)

\* the row of INSERT INTO comments (comment) VALUES (c) RETURNING ...
NewRow(d, c, now) == [id |-> d.seq, comment |-> c, created_at |-> now]

\* INSERT INTO comments, on a database with the table
InsertRow(d, c, now) ==
    [d EXCEPT !.rows = Append(@, NewRow(d, c, now)), !.seq = @ + 1]

\* the last two of the completed operations
LastTwo(ops) == IF Len(ops) <= 2 THEN ops ELSE SubSeq(ops, Len(ops) - 1, Len(ops))

\* an operation has completed: op, whether a fault was injected into one of
\* its statements, whether a statement failed and whether it threw
Completed(op, fault, failed, threw) ==
    /\ lastOps' = LastTwo(Append(lastOps,
                    [op |-> op, fault |-> fault, failed |-> failed]))
    /\ anyFailed' = (anyFailed \/ failed)
    /\ raised' = threw

\* the database becomes d
SetDb(d) ==
    /\ dbExists' = d.exists
    /\ dbRows' = d.rows
    /\ dbSeq' = d.seq

\* initializeDatabase of lib/db.ts, its first statement (ok: the statement
\* reaches the database and runs)
initializeDatabaseDrop(ok) ==
    /\ initPc = "idle"
    /\ prevDb' = DbState
    /\ IF ok
       THEN /\ SetDb(DropTableIfExists(DbState))
            /\ initPc' = "dropped"
            /\ UNCHANGED <<lastOps, anyFailed, raised>>
       ELSE /\ Completed("initializeDatabase", TRUE, TRUE, TRUE)
            /\ UNCHANGED <<dbExists, dbRows, dbSeq, initPc>>
    /\ UNCHANGED <<hub, route, dbNow, inserted, listed>>

\* initializeDatabase of lib/db.ts, its second statement; CREATE TABLE fails
\* when the table exists
initializeDatabaseCreate(ok) ==
    /\ initPc = "dropped"
    /\ initPc' = "idle"
    /\ IF ok /\ ~dbExists
       THEN /\ SetDb(CreateTable(DbState))
            /\ Completed("initializeDatabase", FALSE, FALSE, FALSE)
       ELSE /\ Completed("initializeDatabase", ~ok, TRUE, TRUE)
            /\ UNCHANGED <<dbExists, dbRows, dbSeq>>
    /\ UNCHANGED <<hub, route, dbNow, prevDb, inserted, listed>>

\* initializeDatabase of part_004: an error is logged and swallowed
initializeDatabaseIfNotExists(ok) ==
    /\ prevDb' = DbState
    /\ IF ok
       THEN /\ SetDb(CreateTableIfNotExists(DbState))
            /\ Completed("initializeDatabaseIfNotExists", FALSE, FALSE, FALSE)
       ELSE /\ Completed("initializeDatabaseIfNotExists", TRUE, TRUE, FALSE)
            /\ UNCHANGED <<dbExists, dbRows, dbSeq>>
    /\ UNCHANGED <<hub, route, dbNow, initPc, inserted, listed>>

\* GET of app/api/init-db/route.ts: an error becomes a 500 response
InitDbGET(ok) ==
    /\ prevDb' = DbState
    /\ IF ok
       THEN /\ SetDb(CreateTableIfNotExists(DbState))
            /\ Completed("InitDbGET", FALSE, FALSE, FALSE)
       ELSE /\ Completed("InitDbGET", TRUE, TRUE, TRUE)
            /\ UNCHANGED <<dbExists, dbRows, dbSeq>>
    /\ UNCHANGED <<hub, route, dbNow, initPc, inserted, listed>>

\* a validation that only rejects the empty text
CommentRejected_EmptyOnly(comment) == comment = <<>>

\* the validation of create: !comment || comment.trim().length === 0
CommentRejected(comment) == comment = <<>> \/ Len(Trim(comment)) = 0

\* the server action create of the comments page: validation, then
\* insertComment(comment.trim()), whose error is logged; the clock of the
\* database advances by tick
create(comment, ok, tick) ==
    /\ prevDb' = DbState
    /\ dbNow + tick <= MaxNow
    /\ IF CommentRejected(comment)
       THEN /\ Completed("create", FALSE, FALSE, FALSE)
            /\ UNCHANGED <<dbExists, dbRows, dbSeq, dbNow, inserted>>
       ELSE IF ok /\ dbExists
       THEN /\ Len(dbRows) < MaxComments
            /\ SetDb(InsertRow(DbState, Trim(comment), dbNow))
            /\ inserted' = inserted \cup {NewRow(DbState, Trim(comment), dbNow)}
            /\ dbNow' = dbNow + tick
            /\ Completed("create", FALSE, FALSE, FALSE)
       ELSE /\ Completed("create", ~ok, TRUE, FALSE)
            /\ UNCHANGED <<dbExists, dbRows, dbSeq, dbNow, inserted>>
    /\ UNCHANGED <<hub, route, initPc, listed>>

\* a SELECT without ORDER BY: the rows as they were inserted
Descending_Unordered(rows) == {rows}

\* the orders ORDER BY created_at DESC may return the rows in
Descending(rows) ==
    { [i \in 1 .. Len(rows) |-> rows[f[i]]] :
        f \in { g \in [1 .. Len(rows) -> 1 .. Len(rows)] :
                  /\ \A i, k \in 1 .. Len(rows) : i # k => g[i] # g[k]
                  /\ \A i, k \in 1 .. Len(rows) :
                        i < k => rows[g[i]].created_at >= rows[g[k]].created_at } }

\* getComments: the rows, newest first; [] when the query fails
getComments(ok) ==
    /\ prevDb' = DbState
    /\ IF ok /\ dbExists
       THEN /\ listed' \in Descending(dbRows)
            /\ Completed("getComments", FALSE, FALSE, FALSE)
       ELSE /\ listed' = <<>>
            /\ Completed("getComments", ~ok, TRUE, FALSE)
    /\ UNCHANGED <<hub, route, dbExists, dbRows, dbSeq, dbNow, initPc, inserted>>

\* ------------------------------------------------- the interval's callback
\* the branch `data.status === "succeeded" && data.output` of the callback
IsSuccess(st, out) == st = "succeeded" /\ Truthy(out)
\* a branch that also gives up on a job that is still running
IsFailure_OrRunning(st) == st \in {"failed", "canceled", "running"}
\* the branch `["failed", "canceled"].includes(data.status)`
IsFailure(st) == st \in {"failed", "canceled"}

\* const item: LibraryItem = {...} of the callback of job j
LibraryItem(j, c, out, now) ==
    [id |-> j, prompt |-> Trim(c.prompt), createdAt |-> now, url |-> out,
     duration |-> c.duration, resolution |-> c.resolution]

\* an append to the list as it is now, not as the effect's closure holds it
NextItems_Current(item, its) == Slice(<<item>> \o items, LibraryCap)

\* const next = [item, ...items].slice(0, 100)
NextItems(item, its) == Slice(<<item>> \o its, LibraryCap)

\* the `if (!mounted) return` of the callback lets the response through
Guarded(m, j) == m[j]

\* the shape of the status responses of a job after one more response:
\*   "pre"  only 200 responses with a non-terminal status so far
\*   "hit"  "pre", then one succeeded response with a truthy output
\*   "err"  no terminal status so far, and some query has failed
\*   "term" a terminal status was reported, otherwise than as in "hit"
HistAfter(h, st, out) ==
    IF h \in {"hit", "term"} THEN "term"
    ELSE IF st \in NonTerminal THEN h
    ELSE IF h = "pre" /\ IsSuccess(st, out) THEN "hit"
    ELSE "term"

HistAfterFailure(h) == IF h \in {"hit", "term"} THEN "term" ELSE "err"

\* the callback from `const data = await resp.json()` on, for a 200 response
\* of the status route with provider status st, raw output raw and error err
StatusOK(j, st, raw, err) ==
    LET out == NormalizeOutput(raw)
        item == LibraryItem(j, closure[j], out, clock)
        next == NextItems(item, closure[j].items)
    IN  /\ inflight[j] > 0
        /\ inflight' = [inflight EXCEPT ![j] = @ - 1]
        /\ hist' = [hist EXCEPT ![j] = HistAfter(@, st, out)]
        /\ IF Guarded(mounted, j)
           THEN /\ status' = st
                /\ error' = IF err # "" THEN err ELSE error
                /\ IF IsSuccess(st, out)
                   THEN /\ videoUrl' = out
                        /\ loading' = FALSE
                        /\ interval' = clearInterval(interval, j)
                        /\ clock' = clock + 1
                        /\ IF itemsIsArray
                           THEN /\ items' = next
                                /\ localStorage' = JSONStringify(next)
                                /\ saves' = [saves EXCEPT ![j] = @ + 1]
                           ELSE \* [item, ...items] throws; the catch repeats
                                \* setLoading(false) and clearInterval
                                UNCHANGED <<items, localStorage, saves>>
                   ELSE IF IsFailure(st)
                   THEN /\ loading' = FALSE
                        /\ interval' = clearInterval(interval, j)
                        /\ UNCHANGED <<videoUrl, items, localStorage, clock, saves>>
                   ELSE UNCHANGED <<videoUrl, loading, interval, items,
                                    localStorage, clock, saves>>
           ELSE UNCHANGED <<status, error, videoUrl, loading, interval, items,
                            localStorage, clock, saves>>
        /\ UNCHANGED <<prompt, duration, resolution, predictionId, alive,
                       mounted, closure, subs, token, aux, nextId, queries, torn>>

\* the catch of the callback: setLoading(false)
PollFailedLoading(l, m, j) == FALSE

\* the callback for a query that failed: fetch or resp.json() threw, or the
\* status route answered non-OK (`if (!resp.ok) throw`)
StatusFail(j) ==
    /\ inflight[j] > 0
    /\ inflight' = [inflight EXCEPT ![j] = @ - 1]
    /\ hist' = [hist EXCEPT ![j] = HistAfterFailure(@)]
    /\ loading' = IF alive THEN PollFailedLoading(loading, mounted, j) ELSE loading
    /\ interval' = clearInterval(interval, j)
    /\ UNCHANGED <<prompt, duration, resolution, predictionId, videoUrl, status,
                   error, items, alive>>
    /\ UNCHANGED <<mounted, closure, localStorage, subs, token, aux, nextId, clock,
                   queries, saves, torn>>

\* the component is unmounted: the cleanup of the current effect runs
Unmount ==
    /\ alive
    /\ alive' = FALSE
    /\ IF predictionId # NoJob
       THEN /\ mounted' = CleanupMounted(mounted, predictionId)
            /\ interval' = CleanupInterval(interval, predictionId)
            /\ torn' = torn \cup {predictionId}
       ELSE UNCHANGED <<mounted, interval, torn>>
    /\ UNCHANGED <<prompt, duration, resolution, predictionId, videoUrl, status,
                   loading, error, items>>
    /\ UNCHANGED <<closure, localStorage, network, token, aux, nextId, clock,
                   queries, saves, hist>>

\* ------------------------------------------------------------ specification
\* how a provider call of the generate route ends
ProviderOutcomes == {"accepted", "rejected", "thrown"}
\* error texts of the provider's payloads ("" = the payload has none)
ProviderErrors == {"", "provider error"}

Next ==
    \/ \E p \in PromptInputs : SetPrompt(p)
    \/ \E d \in Durations : SetDuration(d)
    \/ \E r \in Resolutions : SetResolution(r)
    \/ handleGenerate(MaxSubmits)
    \/ \E s \in 1 .. Len(subs), k \in ProviderOutcomes, e \in ProviderErrors :
            /\ (e # "" => k = "rejected")
            /\ POST(s, k, e)
    \/ \E b \in DirectBodies, k \in ProviderOutcomes, e \in ProviderErrors :
            /\ (e # "" => k = "rejected")
            /\ DirectPost(b, k, e)
    \/ \E s \in 1 .. Len(subs) : GenerateResponse(s)
    \/ \E s \in 1 .. Len(subs) : GenerateThrows(s)
    \/ \E j \in Jobs : Tick(j)
    \/ \E j \in Jobs, st \in ProviderStatuses, raw \in RawOutputs,
          e \in ProviderErrors :
            /\ (e # "" => st = "failed")
            /\ StatusOK(j, st, raw, e)
    \/ \E j \in Jobs : StatusFail(j)
    \/ Unmount

\* the lifecycle of one creation request, with every input editable
Spec == Init /\ [][Next]_vars

\* several submissions of one component, hence effect cleanups by job change;
\* of the inputs only the prompt is edited
NextJobs ==
    \/ \E p \in PromptInputs : SetPrompt(p)
    \/ handleGenerate(MaxJobs)
    \/ \E s \in 1 .. Len(subs), k \in ProviderOutcomes, e \in ProviderErrors :
            /\ (e # "" => k = "rejected")
            /\ POST(s, k, e)
    \/ \E s \in 1 .. Len(subs) : GenerateResponse(s)
    \/ \E s \in 1 .. Len(subs) : GenerateThrows(s)
    \/ \E j \in Jobs : Tick(j)
    \/ \E j \in Jobs, st \in ProviderStatuses, raw \in RawOutputs,
          e \in ProviderErrors :
            /\ (e # "" => st = "failed")
            /\ StatusOK(j, st, raw, e)
    \/ \E j \in Jobs : StatusFail(j)
    \/ Unmount

SpecJobs == Init /\ [][NextJobs]_vars

\* one submission of a component created over any stored library
InitCache ==
    /\ \E st \in StoredValues : ComponentInit(st)
    /\ RouteIdle
    /\ DbIdle
    /\ ExtIdle

NextCache ==
    \/ \E p \in PromptInputs : SetPrompt(p)
    \/ handleGenerate(MaxSubmits)
    \/ \E s \in 1 .. Len(subs), k \in ProviderOutcomes, e \in ProviderErrors :
            /\ (e # "" => k = "rejected")
            /\ POST(s, k, e)
    \/ \E s \in 1 .. Len(subs) : GenerateResponse(s)
    \/ \E s \in 1 .. Len(subs) : GenerateThrows(s)
    \/ \E j \in Jobs : Tick(j)
    \/ \E j \in Jobs, st \in ProviderStatuses, raw \in RawOutputs,
          e \in ProviderErrors :
            /\ (e # "" => st = "failed")
            /\ StatusOK(j, st, raw, e)
    \/ \E j \in Jobs : StatusFail(j)
    \/ Unmount

SpecCache == InitCache /\ [][NextCache]_vars

\* one request to the status route, for every provider output
InitRoute ==
    /\ ComponentInit(StoredAbsent)
    /\ rawOutput \in ProviderOutputs
    /\ statusDone = FALSE
    /\ outputUrl = JUndef
    /\ passOutput = JUndef
    /\ DbIdle
    /\ ExtIdle

NextRoute == \E ok \in BOOLEAN : StatusGET(ok)

SpecRoute == InitRoute /\ [][NextRoute]_vars

\* the comments page and the initialization routes over one database, in
\* which the table may exist already
InitComments ==
    /\ ComponentInit(StoredAbsent)
    /\ RouteIdle
    /\ dbExists \in BOOLEAN
    /\ dbRows = <<>>
    /\ dbSeq = 1
    /\ dbNow = 1
    /\ initPc = "idle"
    /\ lastOps = <<>>
    /\ prevDb = [exists |-> dbExists, rows |-> <<>>, seq |-> 1]
    /\ raised = FALSE
    /\ inserted = {}
    /\ anyFailed = FALSE
    /\ listed = <<>>
    /\ ExtIdle

NextComments ==
    \/ \E ok \in BOOLEAN : initializeDatabaseDrop(ok)
    \/ \E ok \in BOOLEAN : initializeDatabaseCreate(ok)
    \/ \E ok \in BOOLEAN : initializeDatabaseIfNotExists(ok)
    \/ \E ok \in BOOLEAN : InitDbGET(ok)
    \/ \E c \in CommentInputs, ok \in BOOLEAN, tick \in {0, 1} : create(c, ok, tick)
    \/ \E ok \in BOOLEAN : getComments(ok)

SpecComments == InitComments /\ [][NextComments]_vars


\* ------------------------------------------------ proxy to the primary backend
\* Response.text(): the bytes decoded as UTF-8, each malformed one replaced
TextDecode(bytes) ==
    [i \in DOMAIN bytes |-> IF bytes[i] = "xFF" THEN "uFFFD" ELSE bytes[i]]

\* `Bearer ${token}`
Bearer(tok) == <<"Bearer ">> \o (IF tok = JNull THEN <<"null">> ELSE tok.v)

\* the init the two proxy routes pass
RouteInit == [method |-> "GET", body |-> JUndef,
              headers |-> [Authorization |-> JNull, ContentType |-> JNull]]

\* the request backendFetch hands to fetch
backendFetch(path, init) ==
    [path |-> path,
     method |-> init.method,
     body |-> init.body,
     headers |-> [Authorization |-> JStr(Bearer(proxyToken)),
                  ContentType |-> IF Truthy(init.headers.ContentType)
                                  THEN init.headers.ContentType
                                  ELSE JStr(<<"application/json">>)],
     cache |-> "no-store"]

ProxyPaths == {"/v1/jobs/id", "/v1/library"}
SessionTokens == {JNull, JStr(<<"jwt">>)}

\* statuses with which a Response cannot be constructed around a body
NullBodyStatus == {204, 205, 304}

BackendStatuses == {200, 204, 401, 404, 500}
BackendBodies == {<<>>, <<"{}">>, <<"xFF">>}
BackendContentTypes == {JNull, JStr(<<"application/json">>), JStr(<<"text/plain">>)}

\* what the backend may answer; a null body status comes without a body
BackendResponses ==
    {r \in [status : BackendStatuses, body : BackendBodies,
            contentType : BackendContentTypes] :
        r.status \in NullBodyStatus => r.body = <<>>}

\* fetch rejected
NetworkError == [status |-> 0, body |-> <<>>, contentType |-> JNull]

\* the framework's answer to a handler that threw
Unhandled == [status |-> 500, body |-> <<"Internal Server Error">>,
              contentType |-> JStr(<<"text/plain">>)]

\* new NextResponse(await res.text(), { status, headers: { "content-type" } })
ProxyResponse(res) ==
    IF res = NetworkError \/ res.status \in NullBodyStatus
    THEN Unhandled
    ELSE [status |-> res.status,
          body |-> TextDecode(res.body),
          contentType |-> IF Truthy(res.contentType) THEN res.contentType
                          ELSE JStr(<<"application/json">>)]

\* GET of the job proxy and of the library proxy
ProxyGET(path, res) ==
    /\ proxyFetch' = backendFetch(path, RouteInit)
    /\ backendRes' = res
    /\ proxyRes' = ProxyResponse(res)
    /\ UNCHANGED <<proxyToken, core, route, db, audit, gate>>

InitProxy ==
    /\ ComponentInit(StoredAbsent)
    /\ RouteIdle
    /\ DbIdle
    /\ proxyToken \in SessionTokens
    /\ proxyFetch = JUndef
    /\ backendRes = JUndef
    /\ proxyRes = JUndef
    /\ AuditIdle
    /\ GateIdle

NextProxy ==
    \E path \in ProxyPaths, res \in BackendResponses \cup {NetworkError} :
        ProxyGET(path, res)

SpecProxy == InitProxy /\ [][NextProxy]_vars


\* ------------------------------------------------------ security audit script
\* a line is the set of the words of interest it contains
AllowListed == {"localhost", "127.0.0.1", "0.0.0.0"}
IpLiterals == {"127.0.0.1", "0.0.0.0", "10.0.0.5"}

\* grep -E "$IP_PATTERN": the lines that hold four dot-separated numbers
IpLines(file) == {l \in file.lines : l \cap IpLiterals # {}}

\* grep -v "localhost" | grep -v "127.0.0.1" | grep -v "0.0.0.0"
NotLocal(ls) == {l \in ls : l \cap AllowListed = {}}

\* grep -q word file
Mentions(file, word) == \E l \in file.lines : word \in l

\* a file with the given lines
File(ls) == [exists |-> TRUE, lines |-> ls]

\* what a file of the tree may hold
Contents ==
    {Missing,
     File({}),
     File({{"api.aeonprotocol.com", "aeoninvestmentstechnologies.com"}}),
     File({{"api.aeonprotocol.com", "aeoninvestmentstechnologies.com"},
           {"127.0.0.1"}}),
     File({{"api.aeonprotocol.com", "aeoninvestmentstechnologies.com"},
           {"allow_origins", "10.0.0.5"}})}

Trees == [Files -> Contents]

\* Check 1: find . -type f ... -exec grep -l -E "$IP_PATTERN"
IP_MATCHES(t) == {f \in Files : t[f].exists /\ IpLines(t[f]) # {}}

\* the (file, check) pairs for which report_issue runs
Issues(t) ==
    LET api == t["apps/web/lib/api-config.ts"]
        main == t["services/api/app/main.py"]
        nginx == t["deployment/nginx.conf"]
        setup == t["deployment/droplet-setup.sh"]
        env == t[".env.example"]
    IN  {c \in {"ip-matches", "api-domain", "api-ip", "cors-ip", "nginx-domain",
                "setup-domain", "env-ip"} :
            \/ c = "ip-matches" /\ IP_MATCHES(t) # {}
            \/ c = "api-domain" /\ api.exists /\ ~Mentions(api, "api.aeonprotocol.com")
            \/ c = "api-ip" /\ api.exists /\ IpLines(api) # {}
            \/ c = "cors-ip" /\ main.exists
                 /\ \E l \in IpLines(main) :
                        /\ "allow_origins" \in l
                        /\ "127.0.0.1" \notin l
                        /\ "0.0.0.0" \notin l
            \/ c = "nginx-domain" /\ nginx.exists
                 /\ ~Mentions(nginx, "api.aeonprotocol.com")
            \/ c = "setup-domain" /\ setup.exists
                 /\ ~Mentions(setup, "api.aeonprotocol.com")
            \/ c = "env-ip" /\ env.exists /\ NotLocal(IpLines(env)) # {}}

\* the checks for which report_warning runs
Warnings(t) ==
    LET api == t["apps/web/lib/api-config.ts"]
        main == t["services/api/app/main.py"]
        nginx == t["deployment/nginx.conf"]
        setup == t["deployment/droplet-setup.sh"]
        env == t[".env.example"]
        doc == t["README.md"]
        docker == t["docker-compose.yml"]
    IN  {c \in {"api-missing", "cors-domain", "main-missing", "nginx-missing",
                "setup-missing", "env-domain", "env-missing", "doc-ip",
                "docker-ip"} :
            \/ c = "api-missing" /\ ~api.exists
            \/ c = "cors-domain" /\ main.exists
                 /\ ~Mentions(main, "aeoninvestmentstechnologies.com")
            \/ c = "main-missing" /\ ~main.exists
            \/ c = "nginx-missing" /\ ~nginx.exists
            \/ c = "setup-missing" /\ ~setup.exists
            \/ c = "env-domain" /\ env.exists /\ ~Mentions(env, "api.aeonprotocol.com")
            \/ c = "env-missing" /\ ~env.exists
            \/ c = "doc-ip" /\ doc.exists /\ NotLocal(IpLines(doc)) # {}
            \/ c = "docker-ip" /\ docker.exists /\ NotLocal(IpLines(docker)) # {}}

\* the summary: exit 0 if [ $ISSUES_FOUND -eq 0 ], else exit 1
ExitCode(issues) == IF issues = 0 THEN 0 ELSE 1

\* one run of the script in the working directory
securityAudit ==
    /\ ~auditDone
    /\ auditDone' = TRUE
    /\ ISSUES_FOUND' = Cardinality(Issues(tree))
    /\ warnings' = Cardinality(Warnings(tree))
    /\ exitCode' = ExitCode(Cardinality(Issues(tree)))
    /\ UNCHANGED <<tree, core, route, db, proxy, gate>>

InitAudit ==
    /\ ComponentInit(StoredAbsent)
    /\ RouteIdle
    /\ DbIdle
    /\ ProxyIdle
    /\ tree \in Trees
    /\ ISSUES_FOUND = 0
    /\ warnings = 0
    /\ exitCode = 0
    /\ auditDone = FALSE
    /\ GateIdle

NextAudit == securityAudit

SpecAudit == InitAudit /\ [][NextAudit]_vars


\* ----------------------------------------------------------------- middleware
\* a path as the pieces it is written from: "/dashboard/report.pdf" is
\* <<"/dashboard", "/report", ".pdf">>
Paths == {<<"/">>, <<"/pricing">>,
          <<"/sign-in">>, <<"/sign-up", "/sso-callback">>,
          <<"/api", "/init-db">>, <<"/api", "/video">>,
          <<"/dashboard">>, <<"/dashboard", "/reports">>,
          <<"/dashboard", "/report", ".pdf">>,
          <<"/studio", "/video">>}

Methods == {"GET", "POST", "HEAD", "OPTIONS"}

Variants == {"middleware.ts", "part_016"}

ProtectedPrefixes == {"/dashboard", "/agents", "/projects", "/settings", "/studio",
                      "/integrations", "/workflows"}

\* createRouteMatcher(['/dashboard(.*)', ...])
isProtectedRoute(path) == path[1] \in ProtectedPrefixes

\* createRouteMatcher(['/api/init-db'])
isPublicApiRoute(path) == path = <<"/api", "/init-db">>

\* createRouteMatcher(['/', '/sign-in(.*)', '/sign-up(.*)', '/api/init-db'])
isPublicRoute(path) ==
    \/ path = <<"/">>
    \/ path[1] \in {"/sign-in", "/sign-up"}
    \/ path = <<"/api", "/init-db">>

HasDot(path) == \E i \in DOMAIN path : path[i] = ".pdf"

\* config.matcher: every path without a dot, and everything under /api, /trpc
MatcherRuns(path) == ~HasDot(path) \/ path[1] \in {"/api", "/trpc"}

\* Boolean(process.env['CLERK_PUBLISHABLE_KEY'] && process.env['CLERK_SECRET_KEY'])
CLERK_ENABLED == clerkEnv.CLERK_PUBLISHABLE_KEY /\ clerkEnv.CLERK_SECRET_KEY

\* the early return of middleware.ts
NoOp(req) ==
    \/ ~CLERK_ENABLED
    \/ req.method = "OPTIONS"
    \/ req.method = "HEAD"
    \/ isPublicApiRoute(req.path)
    \/ isPublicRoute(req.path)

\* what the middleware of the request's variant does with it
Outcome(req) ==
    IF ~MatcherRuns(req.path)
    THEN [ran |-> FALSE, clerk |-> FALSE, protect |-> FALSE, next |-> TRUE]
    ELSE IF req.variant = "middleware.ts" /\ NoOp(req)
    THEN [ran |-> TRUE, clerk |-> FALSE, protect |-> FALSE, next |-> TRUE]
    ELSE IF ~CLERK_ENABLED
    THEN [ran |-> TRUE, clerk |-> TRUE, protect |-> FALSE, next |-> FALSE]
    ELSE IF isPublicApiRoute(req.path) \/ isPublicRoute(req.path)
    THEN [ran |-> TRUE, clerk |-> TRUE, protect |-> FALSE, next |-> TRUE]
    ELSE IF isProtectedRoute(req.path)
    THEN [ran |-> TRUE, clerk |-> TRUE, protect |-> TRUE, next |-> req.signedIn]
    ELSE [ran |-> TRUE, clerk |-> TRUE, protect |-> FALSE, next |-> TRUE]

\* one request
middleware(req) ==
    /\ mwReq' = req
    /\ mwLog' = Outcome(req)
    /\ UNCHANGED <<clerkEnv, core, route, db, proxy, audit>>

Requests == [path : Paths, method : Methods, variant : Variants,
             signedIn : BOOLEAN]

InitGate ==
    /\ ComponentInit(StoredAbsent)
    /\ RouteIdle
    /\ DbIdle
    /\ ProxyIdle
    /\ AuditIdle
    /\ clerkEnv \in [CLERK_PUBLISHABLE_KEY : BOOLEAN, CLERK_SECRET_KEY : BOOLEAN]
    /\ mwReq = NoRequest
    /\ mwLog = NoLog

NextGate == \E req \in Requests : middleware(req)

SpecGate == InitGate /\ [][NextGate]_vars


\* ================================================================== claims
\* a status response of job j carried a terminal status
TermSeen(j) == hist[j] \in {"hit", "term"}

\* C1: once a status query of a job has returned a terminal status (succeeded,
\* failed or canceled, whatever its output), the job's interval timer is
\* cleared, so that no later tick issues another query.
C1_TerminalStopsPolling ==
    \A j \in Jobs : TermSeen(j) => ~interval[j]

\* C2: when the responses of a job's poller are n-1 non-terminal ones followed
\* by a succeeded one with a resolvable output, the poller has issued exactly
\* n queries (none is left unanswered), has stopped, and has saved exactly one
\* LibraryItem.
C2_ExactlyNQueries ==
    \A j \in Jobs :
        (hist[j] = "hit" /\ j \notin torn) =>
            /\ inflight[j] = 0
            /\ ~interval[j]
            /\ saves[j] = 1

\* C3: once the displayed status of the current job is a terminal one that its
\* poller observed, no later status response of that job replaces it by a
\* non-terminal status.
C3_FirstTerminalAuthoritative ==
    [][\A j \in Jobs :
          (/\ predictionId = j
           /\ TermSeen(j)
           /\ status \in Terminal
           /\ inflight'[j] < inflight[j])
          => status' \in Terminal]_vars

\* C4: after the cleanup of a job's effect has run (unmount or job change), no
\* response or failure of a query issued before it changes status, error,
\* loading, videoUrl or the library.
C4_NoStateAfterTeardown ==
    [][\A j \in Jobs :
          (j \in torn /\ inflight'[j] < inflight[j])
          => UNCHANGED <<status, error, loading, videoUrl, items, localStorage>>]_vars

\* C5: after the cleanup of a job's effect has run (unmount or job change), no
\* further status query is issued for that job.
C5_NoQueryAfterTeardown ==
    [][\A j \in Jobs : j \in torn => queries'[j] = queries[j]]_vars

\* C5 witness: an effect torn down after its interval had fired at least once
\* and while it could have fired again.
C5_Witness ==
    \E j \in Jobs : j \in torn /\ queries[j] >= 1 /\ queries[j] < MaxQueries


\* C6: a failed poll (thrown fetch/JSON error or non-OK response) of the
\* current job stops its interval, surfaces an error to the consumer (the error
\* state is set) and leaves the displayed status as it was, so not "failed"
\* unless the provider had reported that.
C6_PollFailureSurfaced ==
    [][\A j \in Jobs :
          (mounted[j] /\ StatusFail(j))
          => (~interval'[j] /\ error' # "" /\ status' = status)]_vars

\* an empty or whitespace-only string
Blank(p) == p.t = "string" /\ Trim(p.v) = <<>>
\* a non-empty string
NonEmptyPrompt(p) == p.t = "string" /\ p.v # <<>>

\* C7: a creation request whose prompt is empty or whitespace-only causes no
\* call to the inference provider.
C7_NoCallForBlankPrompt ==
    \A s \in 1 .. Len(subs) :
        Blank(subs[s].body.prompt) => subs[s].calls = <<>>

\* the creation call c carries the fields of request body b and the fixed flag
Carries(c, b) ==
    /\ c.prompt = b.prompt
    /\ (b.duration.t # "undefined" => c.duration = b.duration)
    /\ (b.resolution.t # "undefined" => c.resolution = b.resolution)
    /\ c.prompt_optimizer = TRUE

\* C8 as stated: every submission of the component (its prompt is non-empty)
\* that the route has handled produced exactly one creation call, carrying
\* prompt, duration, resolution and prompt_optimizer = true.
C8_ExactlyOneCall ==
    \A s \in 1 .. Len(subs) :
        (subs[s].origin = "ui" /\ subs[s].routed) =>
            /\ Len(subs[s].calls) = 1
            /\ Carries(subs[s].calls[1], subs[s].body)

\* C8 as amended: a submission of the component always has a non-empty prompt;
\* no creation request ever has a second creation call (in flight, polled or
\* done); a request with a non-empty prompt that the route has handled
\* produced exactly one call carrying prompt, duration, resolution and
\* prompt_optimizer = true when REPLICATE_API_TOKEN is configured, and none
\* when it is not.
C8_OneCallGivenToken ==
    \A s \in 1 .. Len(subs) :
        /\ subs[s].origin = "ui" => NonEmptyPrompt(subs[s].body.prompt)
        /\ Len(subs[s].calls) <= 1
        /\ (subs[s].routed /\ NonEmptyPrompt(subs[s].body.prompt)) =>
              IF token
              THEN /\ Len(subs[s].calls) = 1
                   /\ Carries(subs[s].calls[1], subs[s].body)
              ELSE subs[s].calls = <<>>

\* C8 witness: a submission of the component whose single creation call was
\* made and whose job is being polled.
C8_Witness ==
    \E s \in 1 .. Len(subs) :
        /\ subs[s].origin = "ui"
        /\ Len(subs[s].calls) = 1
        /\ subs[s].job # NoJob
        /\ queries[subs[s].job] >= 1

\* C9: when handleGenerate receives a non-success response, no creation call is
\* made again for it then or later, predictionId and every polling effect stay
\* as they are (no polling starts), the library and its stored copy are
\* unchanged, and in the mounted component loading becomes false and error
\* becomes the error text of the response, which is the provider's own error
\* text whenever its payload has one.
C9_FailedSubmissionIsTerminal ==
    [][\A s \in 1 .. Len(subs) :
          /\ (subs[s].stage = "done" => subs'[s].calls = subs[s].calls)
          /\ (GenerateResponse(s) /\ ~subs[s].resp.ok) =>
                /\ \A t \in 1 .. Len(subs) : subs'[t].calls = subs[t].calls
                /\ UNCHANGED <<predictionId, mounted, interval, closure,
                               inflight, queries, items, localStorage>>
                /\ alive =>
                      /\ loading' = FALSE
                      /\ error' # ""
                      /\ error' = subs[s].resp.error
                      /\ (subs[s].resp.perr # "" => error' = subs[s].resp.perr)]_vars

\* C9 witness: a submission that the provider rejected has been handled while
\* the interval of an earlier job is still running.
C9_Witness ==
    \E s \in 1 .. Len(subs) :
        /\ subs[s].stage = "done" /\ Len(subs[s].calls) = 1 /\ subs[s].job = NoJob
        /\ status = "failed" /\ ~loading /\ error = "provider error"
        /\ predictionId # NoJob /\ interval[predictionId]

\* C10: every LibraryItem belongs to a job some creation request created, has a
\* truthy url, and its prompt, duration and resolution are those of that
\* request's body.
C10_ItemMatchesRequest ==
    \A i \in 1 .. Len(items) :
        \E s \in 1 .. Len(subs) :
            /\ subs[s].job = items[i].id
            /\ Truthy(items[i].url)
            /\ JStr(items[i].prompt) = subs[s].body.prompt
            /\ JNum(items[i].duration) = subs[s].body.duration
            /\ JStr(items[i].resolution) = subs[s].body.resolution

\* C11: every append to the library leaves at most 100 items, the appended item
\* first and behind it the items the list had before the append, in their
\* order, of which only the oldest is dropped, and only when the list was full.
C11_AppendEvictsOldest ==
    [][\A j \in Jobs :
          saves'[j] > saves[j] =>
              /\ Len(items') <= LibraryCap
              /\ Len(items') = IF Len(items) < LibraryCap
                               THEN Len(items) + 1 ELSE LibraryCap
              /\ \A i \in 2 .. Len(items') : items'[i] = items[i - 1]]_vars

\* C12: after every append the stored text parses to the in-memory list, whose
\* head is the appended item and whose tail is the previously stored items,
\* truncated to 100.
C12_StoredIsHeadPlusPrevious ==
    [][\A j \in Jobs :
          saves'[j] > saves[j] =>
              /\ Load(localStorage').t = "list"
              /\ Load(localStorage').v = items'
              /\ Load(localStorage).t = "list"
              /\ items' = Slice(<<items'[1]>> \o Load(localStorage).v,
                                LibraryCap)]_vars

\* C13: whatever the browser holds under LIB_KEY, the value the component
\* keeps as its library is an array.
C13_LibraryIsArray == itemsIsArray

\* the handler answered 200 with an output field
Answered(out) == statusDone /\ out.t # "undefined"

\* a string entry that ends in the video file extension the route knows
IsVideoEntry(u) == u.t = "string" /\ u.v # <<>> /\ u.v[Len(u.v)] = ".mp4"

\* C14: for a list, the normalized output is the first entry ending in the
\* known video extension (".mp4") wherever it is in the list, else the first
\* string entry, else null.
C14_ListPrefersVideoExtension ==
    (Answered(outputUrl) /\ rawOutput.t = "list") =>
        LET l == rawOutput.v
            n == Len(l)
        IN  IF \E i \in 1 .. n : IsVideoEntry(l[i])
            THEN \E i \in 1 .. n :
                    /\ outputUrl = l[i]
                    /\ IsVideoEntry(l[i])
                    /\ \A k \in 1 .. i - 1 : ~IsVideoEntry(l[k])
            ELSE IF \E i \in 1 .. n : l[i].t = "string"
            THEN \E i \in 1 .. n :
                    /\ outputUrl = l[i]
                    /\ l[i].t = "string"
                    /\ \A k \in 1 .. i - 1 : l[k].t # "string"
            ELSE outputUrl = JNull

\* C14 witness: a list whose first video entry comes after another string and
\* before a second video entry has been normalized to that entry.
C14_Witness ==
    /\ Answered(outputUrl)
    /\ rawOutput = JList(<<JStr(PngUrl), JStr(Mp4UrlC), JStr(Mp4Url)>>)
    /\ outputUrl = JStr(Mp4UrlC)

\* the key is present in the keyed output
Present(x) == x.t \notin {"undefined", "null"}

\* C15 as stated: for a keyed output the result is the value of the video key
\* when that key is present, else the value of the url key when present, else
\* null.
C15_VideoKeyWhenPresent ==
    (Answered(outputUrl) /\ rawOutput.t = "object") =>
        outputUrl = IF Present(rawOutput.v.video) THEN rawOutput.v.video
                    ELSE IF Present(rawOutput.v.url) THEN rawOutput.v.url
                    ELSE JNull

\* C15 as amended: for a keyed output the result is the value of the video key
\* when that value is truthy (so also when both keys have one), else the value
\* of the url key when it is truthy, else null; a key whose value is absent,
\* null, "" or 0 counts as missing.
C15_VideoKeyWhenTruthy ==
    (Answered(outputUrl) /\ rawOutput.t = "object") =>
        LET video == rawOutput.v.video
            url == rawOutput.v.url
            falsy == {JUndef, JNull, JStr(<<>>), JNum(0)}
        IN  /\ video \notin falsy => outputUrl = video
            /\ (video \in falsy /\ url \notin falsy) => outputUrl = url
            /\ (video \in falsy /\ url \in falsy) => outputUrl = JNull

\* C15 witness: an output with both keys has been normalized to the value of
\* its video key.
C15_Witness ==
    /\ Answered(outputUrl)
    /\ rawOutput = JObj(JStr(Mp4UrlC), JStr(Mp4Url))
    /\ outputUrl = JStr(Mp4UrlC)

\* C16: the normalizing and the pass-through variant of the status route
\* return the same output for the same provider payload.
C16_VariantsAgree ==
    (Answered(outputUrl) /\ Answered(passOutput)) => outputUrl = passOutput

\* the closed set of job statuses
ClosedStatuses == {"queued", "running", "succeeded", "failed", "canceled"}

\* C17: the status the component holds for a job (when it holds one) is always
\* one of queued, running, succeeded, failed, canceled.
C17_StatusInClosedSet == status # "" => status \in ClosedStatuses

\* C18: while a job id is set, the component is mounted and every status
\* response of the job so far was a 200 with a non-terminal status, the job's
\* interval timer is active, however many queries were made.
C18_PollingUnbounded ==
    \A j \in Jobs :
        (predictionId = j /\ alive /\ hist[j] = "pre") => interval[j]

\* C18 witness: every query the bound allows was made and answered with a
\* non-terminal status, and the timer is still active.
C18_Witness ==
    \E j \in Jobs :
        /\ predictionId = j /\ alive /\ hist[j] = "pre"
        /\ queries[j] = MaxQueries /\ inflight[j] = 0
        /\ status \in NonTerminal
        /\ interval[j]

\* the operations that initialize the comments table
InitOps == {"initializeDatabase", "initializeDatabaseIfNotExists", "InitDbGET"}

\* C19: as long as no statement has failed, every row a successful insert
\* returned is among the rows of the table and, after a list, among the rows
\* getComments returned, also when an initialization ran after the insert.
C19_InsertedStay ==
    (~anyFailed /\ initPc = "idle") =>
        /\ \A r \in inserted : \E i \in 1 .. Len(dbRows) : dbRows[i] = r
        /\ (lastOps # <<>> /\ lastOps[Len(lastOps)].op = "getComments") =>
              \A r \in inserted : \E i \in 1 .. Len(listed) : listed[i] = r

\* C20: when the last two completed operations are two calls of the same
\* initialization, with no other operation completed between them, the first
\* of which succeeded and the second of which met no database fault, the
\* second call did not fail or raise and the table, its rows and its id
\* sequence are as the first call left them.
C20_InitTwiceIsInitOnce ==
    (/\ initPc = "idle"
     /\ Len(lastOps) = 2
     /\ lastOps[1].op = lastOps[2].op
     /\ lastOps[2].op \in InitOps
     /\ ~lastOps[1].failed
     /\ ~lastOps[2].fault) =>
        (~lastOps[2].failed /\ ~raised /\ DbState = prevDb)

\* C20 witness: the route's initialization has run twice in succession on a
\* table that holds a row.
C20_Witness ==
    /\ Len(lastOps) = 2 /\ lastOps[1] = lastOps[2]
    /\ lastOps[2] = [op |-> "InitDbGET", fault |-> FALSE, failed |-> FALSE]
    /\ dbRows # <<>>

\* the last completed operation
LastOp == lastOps[Len(lastOps)]

\* C21: a create with an empty or whitespace-only text leaves the table as it
\* is and fails no statement even when the database is unreachable (none is
\* issued); a create with any other text adds exactly one row, holding the
\* trimmed text, behind the rows there were when its INSERT succeeds, and no
\* row when it fails.
C21_CreateValidatesAndTrims ==
    [][\A c \in CommentInputs, ok \in BOOLEAN, tick \in {0, 1} :
          create(c, ok, tick) =>
              IF Trim(c) = <<>>
              THEN /\ UNCHANGED <<dbExists, dbRows, dbSeq>>
                   /\ ~LastOp'.failed
              ELSE IF ok /\ dbExists
              THEN /\ Len(dbRows') = Len(dbRows) + 1
                   /\ SubSeq(dbRows', 1, Len(dbRows)) = dbRows
                   /\ dbRows'[Len(dbRows')].comment = Trim(c)
              ELSE UNCHANGED <<dbExists, dbRows, dbSeq>>]_vars

\* C21 witness: a create has just been turned away by the validation although
\* the table exists and has room, after another create stored a trimmed text.
C21_Witness ==
    /\ lastOps # <<>> /\ LastOp.op = "create" /\ ~LastOp.failed
    /\ dbExists /\ DbState = prevDb /\ Len(dbRows) < MaxComments
    /\ dbRows # <<>> /\ dbRows[1].comment = <<"a">>

\* C22: getComments never raises; when its query succeeds it returns every row
\* of the table, once, with created_at never increasing along the list; when
\* the query fails (table missing, database fault) it returns the empty list.
C22_ListNewestFirstOrEmpty ==
    [][\A ok \in BOOLEAN :
          getComments(ok) =>
              /\ ~raised'
              /\ IF ok /\ dbExists
                 THEN /\ Len(listed') = Len(dbRows)
                      /\ \A i \in 1 .. Len(dbRows) :
                            \E k \in 1 .. Len(listed') : listed'[k] = dbRows[i]
                      /\ \A i, k \in 1 .. Len(listed') :
                            i < k => listed'[i].created_at >= listed'[k].created_at
                 ELSE listed' = <<>>]_vars

\* C22 witness: a list has returned two rows of different times, the one
\* inserted last first.
C22_Witness ==
    /\ lastOps # <<>> /\ LastOp.op = "getComments" /\ ~LastOp.failed
    /\ Len(listed) = 2
    /\ listed[1].created_at > listed[2].created_at
    /\ listed[1].id > listed[2].id

\* C23: the id of every newly created comment is greater than the id of every
\* comment created before it, whatever inserts and initializations came
\* between (so no id is ever issued twice).
C23_IdsMonotonic ==
    [][\A c \in CommentInputs, ok \in BOOLEAN, tick \in {0, 1} :
          (create(c, ok, tick) /\ Len(dbRows') > Len(dbRows)) =>
              \A r \in inserted : dbRows'[Len(dbRows')].id > r.id]_vars

\* C24: whatever the backend answers, the caller of a proxy route receives the
\* backend's status code and the backend's body
C24_BackendResponseUnchanged ==
    (backendRes # JUndef /\ backendRes # NetworkError) =>
        /\ proxyRes.status = backendRes.status
        /\ proxyRes.body = backendRes.body

\* some file of the tree holds an IP literal outside the allow-listed set
ForeignIp(t) ==
    \E f \in Files : t[f].exists /\ \E l \in t[f].lines : (l \cap IpLiterals) \ AllowListed # {}

\* C25: the audit script exits 0 exactly when the tree holds no IP literal
\* outside localhost / 127.0.0.1 / 0.0.0.0, and exits 1 otherwise
C25_ExitZeroIffNoForeignIp ==
    auditDone => (exitCode = 0 <=> ~ForeignIp(tree))

\* C30: a request to a protected route continues only after auth().protect()
\* was called, whatever its method and whatever Clerk keys are configured, and
\* a request to a public route continues without an authentication check
C30_ProtectedRoutesProtected ==
    mwReq # NoRequest =>
        /\ (isProtectedRoute(mwReq.path) /\ mwLog.next) => mwLog.protect
        /\ (isPublicRoute(mwReq.path) /\ CLERK_ENABLED) =>
               (mwLog.next /\ ~mwLog.protect)

\* C26: at most one status query of a job awaits its response at any time
C26_OneQueryInFlight == \A j \in Jobs : inflight[j] <= 1

\* the polling of job j has ended: its callback has cleared the interval (on a
\* terminal status or a failed query) and its effect was not cleaned up since
PollingEnded(j) == mounted[j] /\ ~interval[j]

\* a submission made after the polling ended (loading is true again) waits for
\* its job id
SubmissionPending ==
    /\ loading
    /\ \E s \in 1 .. Len(subs) : subs[s].origin = "ui" /\ subs[s].stage # "done"

\* C27: while a new submission waits for its job id, no response of a job whose
\* polling has ended changes status, error or loading
C27_NoStaleResponseInNewSubmission ==
    [][\A j \in Jobs :
          (PollingEnded(j) /\ SubmissionPending /\ inflight'[j] < inflight[j])
          => UNCHANGED <<status, error, loading>>]_vars

\* C28: whatever the provider's raw output is, the output field of the
\* normalizing handler's body is a string or null
C28_OutputIsStringOrNull ==
    (statusDone /\ outputUrl # JUndef) => outputUrl.t \in {"string", "null"}

\* C29: no two items of the library list have the same id
C29_UniqueIds ==
    \A i, k \in 1 .. Len(items) : i # k => items[i].id # items[k].id

\* C29 witness: two succeeded responses of one job were both saved, and the
\* list holds the items of two jobs
C29_Witness ==
    /\ \E j \in Jobs : saves[j] = 2
    /\ Len(items) = 2

====
